---- MODULE Spec2Model ----
(***************************************************************************)
(* Models of the three programs of the repository.                         *)
(*   0x03-log_parsing/0-stats.py: LogProcessor (process_line, print_stats, *)
(*     handle_interrupt) driven by main(), with SIGINT delivered           *)
(*     asynchronously between any two steps of the interpreter (Spec).     *)
(*   0x01-lockboxes/0-lockboxes.py: canUnlockAll, set.pop() handing out    *)
(*     any key of the set (LockSpec).                                      *)
(*   0x00-pascal_triangle/0-pascal_triangle.py: pascal_triangle            *)
(*     (PascalSpec).                                                       *)
(***************************************************************************)
EXTENDS Integers, Sequences, FiniteSets, TLC

\* ------------------------------------------------------------------ bounds
\* Lines of free choice that the input stream holds after its warm-up prefix.
MaxLines == 2
\* Length of the warm-up prefix (identical valid lines) of the long streams.
Warmup == 9
\* SIGINT signals delivered during one run.
MaxSignals == 2
\* Boxes in the list given to canUnlockAll.
MaxBoxes == 2
\* Keys listed in one box.
MaxKeysPerBox == 2
\* Largest argument of pascal_triangle.
MaxRows == 8

\* --------------------------------------------------------------- constants
\* `if self.line_count % 10 == 0`
Cadence == 10
\* self.valid_codes
valid_codes == {200, 301, 400, 401, 403, 404, 405, 500}

\* ------------------------------------------------------------- input lines
\* A raw line is a sequence of tokens.  "sp" and "nl" are whitespace (blank
\* run, line terminator); the other tokens are the maximal runs of
\* non-blank characters, except that the request descriptor, which holds
\* single blanks itself, is one token.  A "num" token is a run that begins
\* with decimal digits d; tail says that other characters follow the digits
\* in the same run ("100abc"); over says that the digit string is longer
\* than the interpreter's limit for int() (int raises ValueError).
Tok(t) == [t |-> t, d |-> << >>, tail |-> FALSE, over |-> FALSE]
Num(d) == [t |-> "num", d |-> d, tail |-> FALSE, over |-> FALSE]
NumTail(d) == [t |-> "num", d |-> d, tail |-> TRUE, over |-> FALSE]
NumOver(d) == [t |-> "num", d |-> d, tail |-> FALSE, over |-> TRUE]

Head4 == << Tok("ip"), Tok("dash"), Tok("date"), Tok("req") >>
NL == << Tok("nl") >>

\* 127.0.0.1 - [date] "GET /projects/260 HTTP/1.1" 200 100
LineOk200 == Head4 \o << Num(<<2, 0, 0>>), Num(<<1, 0, 0>>) >> \o NL
\* status 999 (not a tracked code), size 050, blanks before the address
LineNw999 == << Tok("sp") >> \o Head4 \o << Num(<<9, 9, 9>>), Num(<<0, 5, 0>>) >> \o NL
\* a request for another path: ... "GET /projects/261 HTTP/1.1" 200 100
LineOtherPath == << Tok("ip"), Tok("dash"), Tok("date"), Tok("reqOther"),
                    Num(<<2, 0, 0>>), Num(<<1, 0, 0>>) >> \o NL
\* a record followed by more text: ... 301 7abc extra
LineTrailing == Head4 \o << Num(<<3, 0, 1>>), NumTail(<<7>>), Tok("word") >> \o NL
\* a size of more digits than int() converts
LineHuge == Head4 \o << Num(<<2, 0, 0>>), NumOver(<<1>>) >> \o NL

Lines == { LineOk200, LineNw999, LineOtherPath, LineTrailing, LineHuge }

NoLine == << >>

\* ------------------------------------------------------------------ parser
IsSpace(tok) == tok.t \in {"sp", "nl"}

RECURSIVE LStrip(_)
LStrip(l) == IF l # << >> /\ IsSpace(Head(l)) THEN LStrip(Tail(l)) ELSE l

RECURSIVE RStrip(_)
RStrip(l) ==
    IF l # << >> /\ IsSpace(l[Len(l)]) THEN RStrip(SubSeq(l, 1, Len(l) - 1)) ELSE l

\* line.strip()
Strip(l) == RStrip(LStrip(l))

\* ([\d\.]+) followed by blanks: a token of digits and dots only
IsIpTok(tok) == tok.t = "ip" \/ (tok.t = "num" /\ ~tok.tail)

\* self.pattern.match(s): the pattern is anchored at the start of s only; it
\* ends with (\d+), so whatever follows the digits of the size is not looked at.
Matches(s) ==
    /\ Len(s) >= 6
    /\ IsIpTok(s[1])
    /\ s[2].t = "dash"
    /\ s[3].t = "date"
    /\ s[4].t = "req"
    /\ s[5].t = "num" /\ ~s[5].tail
    /\ s[6].t = "num"

\* The grammar of the record format applied to the whole line: exactly the
\* six tokens, nothing after the digits of the size.
WholeLineMatches(s) == Matches(s) /\ Len(s) = 6 /\ ~s[6].tail

RECURSIVE DigitsToInt(_)
DigitsToInt(d) ==
    IF d = << >> THEN 0 ELSE 10 * DigitsToInt(SubSeq(d, 1, Len(d) - 1)) + d[Len(d)]

\* int(match.group(k)) raises ValueError on a digit string over the limit
RaisesValueError(tok) == tok.over
IntOf(tok) == DigitsToInt(tok.d)

\* the line is applied to the metrics: it matches and both fields convert
Accepted(l) ==
    LET s == Strip(l) IN
    Matches(s) /\ ~RaisesValueError(s[5]) /\ ~RaisesValueError(s[6])
StatusOf(l) == IntOf(Strip(l)[5])
SizeOf(l) == IntOf(Strip(l)[6])

\* S in descending order
RECURSIVE SortedSeq_Descending(_)
SortedSeq_Descending(S) ==
    IF S = {} THEN << >>
    ELSE LET m == CHOOSE x \in S : \A y \in S : x >= y
         IN << m >> \o SortedSeq_Descending(S \ {m})

\* sorted(S) for a finite set of integers
RECURSIVE SortedSeq(_)
SortedSeq(S) ==
    IF S = {} THEN << >>
    ELSE LET m == CHOOSE x \in S : \A y \in S : x <= y
         IN << m >> \o SortedSeq(S \ {m})

\* ------------------------------------------------------------------- state
VARIABLES
    total_size,     \* self.total_size
    status_codes,   \* self.status_codes: a function on the keys present
    line_count,     \* self.line_count
    should_exit,    \* self.should_exit
    stack,          \* call stack, main() at the bottom; << >> once the process has exited
    line,           \* process_line: the line in hand
    status_code,    \* process_line: local status_code
    file_size,      \* process_line: local file_size
    out,            \* standard output, one record per line written
    exit_code,      \* exit status of the process, NoExit while it runs
    warm,           \* length of the warm-up prefix of the input stream
    hist,           \* the lines read from stdin so far, in order
    pre,            \* the metrics and output length when the line in hand was read
    nsig            \* SIGINT signals delivered so far

\* canUnlockAll (0x01-lockboxes/0-lockboxes.py)
VARIABLES
    boxes,          \* the argument: a list of lists of keys
    lb_n,           \* n = len(boxes)
    unlocked,       \* the set unlocked
    keys,           \* the set keys
    lb_pc,          \* statement about to run; "off" when the function is not called
    lb_result,      \* the value returned
    added           \* for each box, how many times its keys were put into keys

lbvars == << boxes, lb_n, unlocked, keys, lb_pc, lb_result, added >>

\* pascal_triangle (0x00-pascal_triangle/0-pascal_triangle.py)
VARIABLES
    pt_n,           \* the argument n
    triangle,       \* the list triangle
    row,            \* the list row
    pt_i,           \* loop variable i
    pt_j,           \* loop variable j
    pt_pc,          \* statement about to run; "off" when the function is not called
    pt_result       \* the value returned

ptvars == << pt_n, triangle, row, pt_i, pt_j, pt_pc, pt_result >>

logvars == << total_size, status_codes, line_count, should_exit, stack, line,
              status_code, file_size, out, exit_code, warm, hist, pre, nsig >>

vars == << logvars, lbvars, ptvars >>

metrics == << total_size, status_codes, line_count >>
locals == << line, status_code, file_size >>
input == << warm, hist, pre >>

\* no exit status yet; no value
NoExit == 0 - 1
NoCode == 0 - 1

\* A frame of the call stack.  main() and the process_line() it calls share
\* the bottom frame; pc names the statement about to run.
Frame(fn, pc, kind) ==
    [fn |-> fn, pc |-> pc, kind |-> kind, keys |-> << >>, i |-> 0, rep |-> 0, applied |-> 0]

Top == stack[Len(stack)]
Running(fn, pc) == stack # << >> /\ Top.fn = fn /\ Top.pc = pc
\* the top frame moves to pc
Goto(pc) == [stack EXCEPT ![Len(stack)].pc = pc]
\* the top frame calls: it will resume at ret, f runs
Call(ret, f) == Append(Goto(ret), f)
Return == SubSeq(stack, 1, Len(stack) - 1)

MainPc == IF stack = << >> THEN "exited" ELSE stack[1].pc

\* the lines of the stream whose status update has been applied or skipped
AppliedLines ==
    IF MainPc \in {"match", "int", "status"} THEN Len(hist) - 1 ELSE Len(hist)

\* the number of reports whose 'File size' line has been written
NumReports(kind) == Cardinality({ k \in 1..Len(out) : out[k].k = "size" /\ out[k].kind = kind })

\* canUnlockAll is not called
LbOff ==
    /\ boxes = << >> /\ lb_n = 0 /\ unlocked = {} /\ keys = {}
    /\ lb_pc = "off" /\ lb_result = FALSE /\ added = << >>

\* pascal_triangle is not called
PtOff ==
    /\ pt_n = 0 /\ triangle = << >> /\ row = << >> /\ pt_i = 0 /\ pt_j = 0
    /\ pt_pc = "off" /\ pt_result = << >>

\* the log processor is not run
LogOff ==
    /\ total_size = 0 /\ status_codes = << >> /\ line_count = 0
    /\ should_exit = FALSE /\ stack = << >> /\ line = NoLine
    /\ status_code = NoCode /\ file_size = NoCode /\ out = << >>
    /\ exit_code = NoExit /\ warm = 0 /\ hist = << >>
    /\ pre = [total_size |-> 0, status_codes |-> << >>, line_count |-> 0, nout |-> 0]
    /\ nsig = 0

Init ==
    /\ LbOff
    /\ PtOff
    /\ total_size = 0
    /\ status_codes = << >>
    /\ line_count = 0
    /\ should_exit = FALSE
    /\ stack = << Frame("main", "for", "") >>
    /\ line = NoLine
    /\ status_code = NoCode
    /\ file_size = NoCode
    /\ out = << >>
    /\ exit_code = NoExit
    /\ warm \in {0, Warmup}
    /\ hist = << >>
    /\ pre = [total_size |-> 0, status_codes |-> << >>, line_count |-> 0, nout |-> 0]
    /\ nsig = 0

\* ------------------------------------------------------------------- main
\* the lines stdin can yield next: the warm-up prefix, then any line
NextLines ==
    IF Len(hist) < warm THEN { LineOk200 }
    ELSE IF Len(hist) < warm + MaxLines THEN Lines
    ELSE {}

\* for line in sys.stdin: processor.process_line(line)
NextLine ==
    /\ Running("main", "for")
    /\ \E l \in NextLines :
        /\ line' = l
        /\ hist' = Append(hist, l)
    /\ pre' = [total_size |-> total_size, status_codes |-> status_codes,
               line_count |-> line_count, nout |-> Len(out)]
    /\ stack' = Goto("match")
    /\ UNCHANGED << metrics, should_exit, status_code, file_size, out, exit_code, warm, nsig >>

\* stdin is exhausted: the for loop ends
EndOfInput ==
    /\ Running("main", "for")
    /\ Len(hist) >= warm
    /\ stack' = Goto("end")
    /\ UNCHANGED << metrics, should_exit, locals, out, exit_code, input, nsig >>

\* main() returns and the interpreter exits with status 0
MainReturn ==
    /\ Running("main", "end")
    /\ stack' = << >>
    /\ exit_code' = 0
    /\ UNCHANGED << metrics, should_exit, locals, out, input, nsig >>

\* if processor.should_exit: break
CheckExit ==
    /\ Running("main", "check")
    /\ stack' = IF should_exit THEN Goto("end") ELSE Goto("for")
    /\ UNCHANGED << metrics, should_exit, locals, out, exit_code, input, nsig >>

\* ----------------------------------------------------------- process_line
\* MatchLine with the line counter advanced for every line read, matching or not
MatchLine_CountsEveryLine ==
    /\ Running("main", "match")
    /\ stack' = IF Matches(Strip(line)) THEN Goto("int") ELSE Goto("check")
    /\ line_count' = IF Matches(Strip(line)) THEN line_count ELSE line_count + 1
    /\ UNCHANGED << total_size, status_codes, should_exit, locals, out, exit_code, input, nsig >>

\* match = self.pattern.match(line.strip()); if match:
MatchLine ==
    /\ Running("main", "match")
    /\ stack' = IF Matches(Strip(line)) THEN Goto("int") ELSE Goto("check")
    /\ UNCHANGED << metrics, should_exit, locals, out, exit_code, input, nsig >>

\* ConvertFields without the except clause: ValueError ends the process
ConvertFields_Uncaught ==
    /\ Running("main", "int")
    /\ LET s == Strip(line) IN
        IF RaisesValueError(s[5]) \/ RaisesValueError(s[6])
        THEN /\ stack' = << >>
             /\ exit_code' = 1
             /\ UNCHANGED << status_code, file_size >>
        ELSE /\ stack' = Goto("status")
             /\ status_code' = IntOf(s[5])
             /\ file_size' = IntOf(s[6])
             /\ UNCHANGED exit_code
    /\ UNCHANGED << metrics, should_exit, line, out, input, nsig >>

\* status_code = int(match.group(3)); file_size = int(match.group(4));
\* except ValueError: pass
ConvertFields ==
    /\ Running("main", "int")
    /\ LET s == Strip(line) IN
        IF RaisesValueError(s[5])
        THEN /\ stack' = Goto("check")
             /\ UNCHANGED << status_code, file_size >>
        ELSE IF RaisesValueError(s[6])
        THEN /\ stack' = Goto("check")
             /\ status_code' = IntOf(s[5])
             /\ UNCHANGED file_size
        ELSE /\ stack' = Goto("status")
             /\ status_code' = IntOf(s[5])
             /\ file_size' = IntOf(s[6])
    /\ UNCHANGED << metrics, should_exit, line, out, exit_code, input, nsig >>

\* self.status_codes[status_code] += 1 on a defaultdict(int)
Incremented(d, c) ==
    IF c \in DOMAIN d THEN [d EXCEPT ![c] = @ + 1] ELSE d @@ (c :> 1)

\* UpdateStatus without the test against valid_codes
UpdateStatus_NoWhitelist ==
    /\ Running("main", "status")
    /\ status_codes' = Incremented(status_codes, status_code)
    /\ stack' = Goto("size")
    /\ UNCHANGED << total_size, line_count, should_exit, locals, out, exit_code, input, nsig >>

\* if status_code in self.valid_codes: self.status_codes[status_code] += 1
UpdateStatus ==
    /\ Running("main", "status")
    /\ status_codes' = IF status_code \in valid_codes
                       THEN Incremented(status_codes, status_code)
                       ELSE status_codes
    /\ stack' = Goto("size")
    /\ UNCHANGED << total_size, line_count, should_exit, locals, out, exit_code, input, nsig >>

\* UpdateSize placed under the test against valid_codes
UpdateSize_OnlyTracked ==
    /\ Running("main", "size")
    /\ total_size' = IF status_code \in valid_codes THEN total_size + file_size ELSE total_size
    /\ stack' = Goto("count")
    /\ UNCHANGED << status_codes, line_count, should_exit, locals, out, exit_code, input, nsig >>

\* self.total_size += file_size
UpdateSize ==
    /\ Running("main", "size")
    /\ total_size' = total_size + file_size
    /\ stack' = Goto("count")
    /\ UNCHANGED << status_codes, line_count, should_exit, locals, out, exit_code, input, nsig >>

\* UpdateCount placed under the test against valid_codes
UpdateCount_OnlyTracked ==
    /\ Running("main", "count")
    /\ line_count' = IF status_code \in valid_codes THEN line_count + 1 ELSE line_count
    /\ stack' = Goto("cadence")
    /\ UNCHANGED << total_size, status_codes, should_exit, locals, out, exit_code, input, nsig >>

\* self.line_count += 1
UpdateCount ==
    /\ Running("main", "count")
    /\ line_count' = line_count + 1
    /\ stack' = Goto("cadence")
    /\ UNCHANGED << total_size, status_codes, should_exit, locals, out, exit_code, input, nsig >>

\* if self.line_count % 10 == 0: self.print_stats()
CheckCadence ==
    /\ Running("main", "cadence")
    /\ stack' = IF line_count % Cadence = 0
                THEN Call("check", Frame("print_stats", "header", "periodic"))
                ELSE Goto("check")
    /\ UNCHANGED << metrics, should_exit, locals, out, exit_code, input, nsig >>

\* ------------------------------------------------------------ print_stats
\* One record per line of output; rep numbers the reports, kind tells which
\* call of print_stats wrote the line, applied is AppliedLines at that call.
OutLine(k, f, c, v) ==
    [k |-> k, rep |-> f.rep, kind |-> f.kind, applied |-> f.applied, c |-> c, v |-> v]

\* print(f"\nFile size: {self.total_size}"): an empty line, then the total;
\* then sorted(self.status_codes.keys()) is built for the loop
PrintHeader ==
    /\ Running("print_stats", "header")
    /\ LET f == [Top EXCEPT !.rep = NumReports("periodic") + NumReports("final") + 1,
                            !.applied = AppliedLines,
                            !.keys = SortedSeq(DOMAIN status_codes),
                            !.i = 1,
                            !.pc = "loop"]
       IN /\ out' = out \o << OutLine("blank", f, NoCode, 0),
                              OutLine("size", f, NoCode, total_size) >>
          /\ stack' = [stack EXCEPT ![Len(stack)] = f]
    /\ UNCHANGED << metrics, should_exit, locals, exit_code, input, nsig >>

\* for code in ...: if self.status_codes[code] > 0: print(f"{code}: {count}")
PrintCode ==
    /\ Running("print_stats", "loop")
    /\ Top.i <= Len(Top.keys)
    /\ LET code == Top.keys[Top.i] IN
        out' = IF status_codes[code] > 0
               THEN Append(out, OutLine("code", Top, code, status_codes[code]))
               ELSE out
    /\ stack' = [stack EXCEPT ![Len(stack)].i = @ + 1]
    /\ UNCHANGED << metrics, should_exit, locals, exit_code, input, nsig >>

\* the loop is over: print_stats returns to its caller
PrintReturn ==
    /\ Running("print_stats", "loop")
    /\ Top.i > Len(Top.keys)
    /\ stack' = Return
    /\ UNCHANGED << metrics, should_exit, locals, out, exit_code, input, nsig >>

\* ------------------------------------------------------- handle_interrupt
\* SIGINT arrives: the interpreter runs the handler registered by
\* signal.signal(signal.SIGINT, self.handle_interrupt) on top of whatever is
\* running, a handler that is itself running included.  With the handler
\* installed no KeyboardInterrupt is raised, so the `except KeyboardInterrupt`
\* of main() never runs.
Interrupt ==
    /\ stack # << >>
    /\ nsig < MaxSignals
    /\ nsig' = nsig + 1
    /\ stack' = Append(stack, Frame("handle_interrupt", "flag", ""))
    /\ UNCHANGED << metrics, should_exit, locals, out, exit_code, input >>

\* self.should_exit = True
HandlerSetFlag ==
    /\ Running("handle_interrupt", "flag")
    /\ should_exit' = TRUE
    /\ stack' = Goto("print")
    /\ UNCHANGED << metrics, locals, out, exit_code, input, nsig >>

\* self.print_stats()
HandlerPrint ==
    /\ Running("handle_interrupt", "print")
    /\ stack' = Call("exit", Frame("print_stats", "header", "final"))
    /\ UNCHANGED << metrics, should_exit, locals, out, exit_code, input, nsig >>

\* HandlerExit without sys.exit(0): the handler returns to what it interrupted
HandlerExit_Returns ==
    /\ Running("handle_interrupt", "exit")
    /\ stack' = Return
    /\ UNCHANGED << metrics, should_exit, locals, out, exit_code, input, nsig >>

\* sys.exit(0): SystemExit unwinds every frame (neither `except ValueError`
\* nor `except KeyboardInterrupt` catches it) and the process exits with 0
HandlerExit ==
    /\ Running("handle_interrupt", "exit")
    /\ stack' = << >>
    /\ exit_code' = 0
    /\ UNCHANGED << metrics, should_exit, locals, out, input, nsig >>

\* the functions of the other two files are not called meanwhile
OthersOff == UNCHANGED << lbvars, ptvars >>

Next ==
    \/ NextLine /\ OthersOff
    \/ EndOfInput /\ OthersOff
    \/ MainReturn /\ OthersOff
    \/ CheckExit /\ OthersOff
    \/ MatchLine /\ OthersOff
    \/ ConvertFields /\ OthersOff
    \/ UpdateStatus /\ OthersOff
    \/ UpdateSize /\ OthersOff
    \/ UpdateCount /\ OthersOff
    \/ CheckCadence /\ OthersOff
    \/ PrintHeader /\ OthersOff
    \/ PrintCode /\ OthersOff
    \/ PrintReturn /\ OthersOff
    \/ Interrupt /\ OthersOff
    \/ HandlerSetFlag /\ OthersOff
    \/ HandlerPrint /\ OthersOff
    \/ HandlerExit /\ OthersOff

Spec == Init /\ [][Next]_vars

\* The interpreter keeps running the program, and stdin, a finite stream,
\* yields its next line or its end: a step that can be taken is taken.
FairSpec == Spec /\ WF_vars(Next)

\* ------------------------------------------------------------ canUnlockAll
\* The lists of keys a box can hold when there are m boxes: keys are positive
\* integers; key m opens no box (the boxes are numbered 0..m-1); a key can be
\* listed twice.
KeyLists(m) == UNION { [1..k -> 1..m] : k \in 0..MaxKeysPerBox }
BoxLists == UNION { [1..m -> KeyLists(m)] : m \in 1..MaxBoxes }

\* set(l)
ToSet(l) == { l[i] : i \in DOMAIN l }
\* boxes[k], the boxes being numbered from 0
Box(k) == boxes[k + 1]

LbInit ==
    /\ LogOff
    /\ PtOff
    /\ boxes \in BoxLists
    /\ lb_n = 0
    /\ unlocked = {}
    /\ keys = {}
    /\ lb_pc = "start"
    /\ lb_result = FALSE
    /\ added = [b \in 0..(Len(boxes) - 1) |-> 0]

\* n = len(boxes); unlocked = set([0]); keys = set(boxes[0])
LbStart ==
    /\ lb_pc = "start"
    /\ lb_n' = Len(boxes)
    /\ unlocked' = {0}
    /\ keys' = ToSet(Box(0))
    /\ added' = [added EXCEPT ![0] = @ + 1]
    /\ lb_pc' = "while"
    /\ UNCHANGED << boxes, lb_result >>

\* LbTake without the test `new_key < n`: a key without a box counts as a box
LbTake_NoRangeTest ==
    /\ lb_pc = "while"
    /\ \E new_key \in keys :
        IF new_key \notin unlocked
        THEN /\ unlocked' = unlocked \cup {new_key}
             /\ keys' = (keys \ {new_key}) \cup
                            (IF new_key < lb_n THEN ToSet(Box(new_key)) ELSE {})
             /\ added' = IF new_key < lb_n THEN [added EXCEPT ![new_key] = @ + 1] ELSE added
        ELSE /\ keys' = keys \ {new_key}
             /\ UNCHANGED << unlocked, added >>
    /\ UNCHANGED << boxes, lb_n, lb_pc, lb_result >>

\* LbTake without the test `new_key not in unlocked`
LbTake_NoUnlockedTest ==
    /\ lb_pc = "while"
    /\ \E new_key \in keys :
        IF new_key < lb_n
        THEN /\ unlocked' = unlocked \cup {new_key}
             /\ keys' = (keys \ {new_key}) \cup ToSet(Box(new_key))
             /\ added' = [added EXCEPT ![new_key] = @ + 1]
        ELSE /\ keys' = keys \ {new_key}
             /\ UNCHANGED << unlocked, added >>
    /\ UNCHANGED << boxes, lb_n, lb_pc, lb_result >>

\* while keys: new_key = keys.pop() (any element of the set);
\* if new_key < n and new_key not in unlocked:
\*     unlocked.add(new_key); keys.update(boxes[new_key])
LbTake ==
    /\ lb_pc = "while"
    /\ \E new_key \in keys :
        IF new_key < lb_n /\ new_key \notin unlocked
        THEN /\ unlocked' = unlocked \cup {new_key}
             /\ keys' = (keys \ {new_key}) \cup ToSet(Box(new_key))
             /\ added' = [added EXCEPT ![new_key] = @ + 1]
        ELSE /\ keys' = keys \ {new_key}
             /\ UNCHANGED << unlocked, added >>
    /\ UNCHANGED << boxes, lb_n, lb_pc, lb_result >>

\* keys is empty: return len(unlocked) == n
LbReturn ==
    /\ lb_pc = "while"
    /\ keys = {}
    /\ lb_result' = (Cardinality(unlocked) = lb_n)
    /\ lb_pc' = "done"
    /\ UNCHANGED << boxes, lb_n, unlocked, keys, added >>

LbOthersOff == UNCHANGED << logvars, ptvars >>

LbNext ==
    \/ LbStart /\ LbOthersOff
    \/ LbTake /\ LbOthersOff
    \/ LbReturn /\ LbOthersOff

LockSpec == LbInit /\ [][LbNext]_vars

\* --------------------------------------------------------- pascal_triangle
PtInit ==
    /\ LogOff
    /\ LbOff
    /\ pt_n \in (0 - 1)..MaxRows
    /\ triangle = << >>
    /\ row = << >>
    /\ pt_i = 0
    /\ pt_j = 0
    /\ pt_pc = "start"
    /\ pt_result = << >>

\* if n <= 0: return []; triangle = [[1]]; the outer loop starts at i = 1
PtStart ==
    /\ pt_pc = "start"
    /\ IF pt_n <= 0
       THEN /\ pt_result' = << >>
            /\ pt_pc' = "done"
            /\ UNCHANGED << triangle, pt_i >>
       ELSE /\ triangle' = << << 1 >> >>
            /\ pt_i' = 1
            /\ pt_pc' = "outer"
            /\ UNCHANGED pt_result
    /\ UNCHANGED << pt_n, row, pt_j >>

\* for i in range(1, n): row = [1]; the inner loop starts at j = 1
PtRow ==
    /\ pt_pc = "outer"
    /\ pt_i < pt_n
    /\ row' = << 1 >>
    /\ pt_j' = 1
    /\ pt_pc' = "inner"
    /\ UNCHANGED << pt_n, triangle, pt_i, pt_result >>

\* PtAppend taking the left neighbour from the row being built
PtAppend_LeftFromRow ==
    /\ pt_pc = "inner"
    /\ pt_j < pt_i
    /\ row' = Append(row, row[pt_j] + triangle[pt_i][pt_j + 1])
    /\ pt_j' = pt_j + 1
    /\ UNCHANGED << pt_n, triangle, pt_i, pt_pc, pt_result >>

\* for j in range(1, i): row.append(triangle[i-1][j-1] + triangle[i-1][j])
\* (sequences are numbered from 1: triangle[i-1] is triangle[pt_i] here)
PtAppend ==
    /\ pt_pc = "inner"
    /\ pt_j < pt_i
    /\ row' = Append(row, triangle[pt_i][pt_j] + triangle[pt_i][pt_j + 1])
    /\ pt_j' = pt_j + 1
    /\ UNCHANGED << pt_n, triangle, pt_i, pt_pc, pt_result >>

\* the inner loop is over: row.append(1); triangle.append(row); next i
PtRowEnd ==
    /\ pt_pc = "inner"
    /\ pt_j >= pt_i
    /\ row' = Append(row, 1)
    /\ triangle' = Append(triangle, row')
    /\ pt_i' = pt_i + 1
    /\ pt_pc' = "outer"
    /\ UNCHANGED << pt_n, pt_j, pt_result >>

\* the outer loop is over: return triangle
PtReturn ==
    /\ pt_pc = "outer"
    /\ pt_i >= pt_n
    /\ pt_result' = triangle
    /\ pt_pc' = "done"
    /\ UNCHANGED << pt_n, triangle, row, pt_i, pt_j >>

PtOthersOff == UNCHANGED << logvars, lbvars >>

PtNext ==
    \/ PtStart /\ PtOthersOff
    \/ PtRow /\ PtOthersOff
    \/ PtAppend /\ PtOthersOff
    \/ PtRowEnd /\ PtOthersOff
    \/ PtReturn /\ PtOthersOff

PascalSpec == PtInit /\ [][PtNext]_vars

\* ---------------------------------------------------- the stream, as read
\* What the claims compare the metrics with: the records of the lines read.
\* The record that each line of the stream stands for, if it is accepted.
RecordOf ==
    [l \in Lines |->
        [ok |-> Accepted(l),
         status |-> IF Accepted(l) THEN StatusOf(l) ELSE NoCode,
         size |-> IF Accepted(l) THEN SizeOf(l) ELSE 0]]

IsRecord(l) == RecordOf[l].ok
AcceptedOf(h) == SelectSeq(h, IsRecord)
NumAccepted(h) == Len(AcceptedOf(h))

RECURSIVE SumBytes(_)
SumBytes(h) ==
    IF h = << >> THEN 0 ELSE RecordOf[Head(h)].size + SumBytes(Tail(h))

CountCode(h, c) ==
    Cardinality({ k \in 1..Len(h) : RecordOf[h[k]].ok /\ RecordOf[h[k]].status = c })

Prefix(h, n) == SubSeq(h, 1, n)

\* the process_line call for the line in hand is over (or none was made)
BetweenLines == MainPc \in {"for", "check", "end", "exited"}

\* ------------------------------------------------------------------ claims

\* C1: a run that ends at end-of-input without an interrupt has written, when
\* the process stops, one report per full ten accepted lines plus exactly one
\* final report.
C1_FinalReportAtEndOfInput ==
    (exit_code = 0 /\ nsig = 0) =>
        NumReports("periodic") + NumReports("final") = NumAccepted(hist) \div Cadence + 1

\* C2: every report written by handle_interrupt is a snapshot: for some n, its
\* File size is the sum of the sizes of the first n accepted records, and each
\* count it shows is the number of those n records with that code.
C2_InterruptReportIsSnapshot ==
    \A r \in { out[k].rep : k \in { j \in 1..Len(out) : out[j].kind = "final" } } :
        \E n \in 0..NumAccepted(hist) :
            \A k \in 1..Len(out) :
                out[k].rep = r =>
                    /\ out[k].k = "size" => out[k].v = SumBytes(Prefix(AcceptedOf(hist), n))
                    /\ out[k].k = "code" =>
                           out[k].v = CountCode(Prefix(AcceptedOf(hist), n), out[k].c)

\* C3: once an interrupt has been delivered, the final report is written
\* exactly once: never a second one, however many signals arrive, and the
\* process stops after the one.
C3_FinalReportOnce ==
    nsig > 0 =>
        /\ NumReports("final") <= 1
        /\ exit_code = 0 => NumReports("final") = 1

\* C4: after handle_interrupt has started, no further line is read and
\* total_size, status_codes and line_count are never modified again.
C4_NoInputAfterInterrupt ==
    [][nsig > 0 => UNCHANGED << total_size, status_codes, line_count, hist, line >>]_vars

\* C4 witness: the process has exited through the handler with the line in
\* hand not yet added to total_size.
C4_Witness == exit_code = 0 /\ nsig > 0 /\ total_size < SumBytes(hist)

C7_UntrackedCodeEffect ==
    (MainPc = "cadence" /\ status_code \notin valid_codes) =>
        /\ total_size = pre.total_size + SizeOf(line)
        /\ line_count = pre.line_count + 1
        /\ status_codes = pre.status_codes

\* C7 witness: the record 999/50 has been applied on top of earlier counts.
C7_Witness ==
    /\ MainPc = "cadence" /\ status_code = 999 /\ file_size = 50
    /\ pre.status_codes # << >>

\* C8: periodic reports come after every tenth accepted line and at no other
\* time, in interrupted runs too: never more of them than full tens of
\* accepted lines, and one for each full ten when the process has stopped.
C8_PeriodicAtEveryTenth ==
    /\ NumReports("periodic") <= line_count \div Cadence
    /\ exit_code = 0 => NumReports("periodic") = line_count \div Cadence

C10_OnlyWholeLinesAccepted ==
    MainPc \in {"status", "size", "count", "cadence"} => WholeLineMatches(Strip(line))

\* the count that a report started now would show for code c
CountNow(c) == IF c \in DOMAIN status_codes THEN status_codes[c] ELSE 0

\* the codes on the status lines written so far for report r
CodesShown(r) == { out[k].c : k \in { j \in 1..Len(out) : out[j].rep = r /\ out[j].k = "code" } }

\* print_stats has run through its loop and is about to return
ReportDone == Running("print_stats", "loop") /\ Top.i > Len(Top.keys)

\* C11: in every report the status lines are in strictly ascending order of
\* the code, and when print_stats has finished, a code has a line if and only
\* if its count is greater than zero.
C11_AscendingNonZero ==
    /\ \A j, k \in 1..Len(out) :
           (j < k /\ out[j].rep = out[k].rep /\ out[j].k = "code" /\ out[k].k = "code")
               => out[j].c < out[k].c
    /\ \A k \in 1..Len(out) : out[k].k = "code" => out[k].v > 0
    /\ ReportDone =>
           \A c \in valid_codes \cup DOMAIN status_codes :
               c \in CodesShown(Top.rep) <=> CountNow(c) > 0

\* C11 witness: a finished report with the lines of 200 and 301, the count of
\* 301 having been created before that of 200.
C11_Witness ==
    /\ ReportDone
    /\ CodesShown(Top.rep) = {200, 301}
    /\ hist[1] = LineTrailing

\* C12: a report is the line 'File size: <total>' followed by '<code>:
\* <count>' lines only; no other line, such as an empty one, is written.
C12_ReportLinesOnly ==
    \A k \in 1..Len(out) :
        /\ out[k].k \in {"size", "code"}
        /\ (k = 1 \/ out[k - 1].rep # out[k].rep) => out[k].k = "size"

\* A measure of what is left to do.  A frame counts the statements it still
\* has to run; the stack is compared frame by frame from main() upwards, a
\* stack that is a proper prefix of another being the smaller one.
FrameRank(f) ==
    IF f.fn = "main"
    THEN CASE f.pc = "match" -> 8 [] f.pc = "int" -> 7 [] f.pc = "status" -> 6
           [] f.pc = "size" -> 5 [] f.pc = "count" -> 4 [] f.pc = "cadence" -> 3
           [] f.pc = "check" -> 2 [] f.pc = "for" -> 1 [] OTHER -> 0
    ELSE IF f.fn = "handle_interrupt"
    THEN CASE f.pc = "flag" -> 3 [] f.pc = "print" -> 2 [] OTHER -> 1
    ELSE IF f.pc = "header" THEN Cardinality(valid_codes) + 2
    ELSE Len(f.keys) + 1 - f.i

StackLess(a, b) ==
    \E k \in 1..Len(b) :
        /\ k <= Len(a) + 1
        /\ \A m \in 1..(k - 1) : FrameRank(a[m]) = FrameRank(b[m])
        /\ k = Len(a) + 1 \/ FrameRank(a[k]) < FrameRank(b[k])

\* lines read, signals delivered, stack: <<h1, n1, s1>> comes after <<h2, n2, s2>>
StepsLeftLess(h1, n1, s1, h2, n2, s2) ==
    \/ h1 > h2
    \/ h1 = h2 /\ n1 > n2
    \/ h1 = h2 /\ n1 = n2 /\ StackLess(s1, s2)

\* C13: whatever the lines of a finite stream, the process runs to the
\* stopped state with exit status 0, at end-of-input as well as on SIGINT: it
\* never has another exit status, is never stuck before it has stopped, and
\* every step leaves strictly less to do.
C13_StopsWithSuccess ==
    /\ [](/\ exit_code \in {NoExit, 0}
          /\ stack = << >> => exit_code = 0
          /\ stack # << >> => ENABLED Next)
    /\ [][StepsLeftLess(Len(hist'), nsig', stack', Len(hist), nsig, stack)]_vars

\* the same, said with fairness: under FairSpec the process eventually stops
StopsEventually == <>(stack = << >> /\ exit_code = 0)

\* C13 witness: stopped with status 0 at end-of-input after a line that did
\* not match and a line whose size int() refused.
C13_Witness ==
    /\ stack = << >> /\ exit_code = 0 /\ nsig = 0
    /\ \E i, j \in 1..Len(hist) : hist[i] = LineOtherPath /\ hist[j] = LineHuge

C17_ReportsContiguous ==
    /\ \A j, k, l \in 1..Len(out) :
           (j < k /\ k < l /\ out[j].rep = out[l].rep) => out[k].rep = out[j].rep
    /\ exit_code = 0 =>
           \A k \in 1..Len(out) :
               (out[k].k = "size" /\ out[k].kind = "periodic") =>
                   \A c \in valid_codes :
                       CountCode(Prefix(hist, out[k].applied), c) > 0
                           => c \in CodesShown(out[k].rep)

\* the boxes that can be opened starting from the boxes of R, a key k opening
\* box k when there is such a box
RECURSIVE ReachFrom(_, _)
ReachFrom(bs, R) ==
    LET R2 == R \cup { k \in 0..(Len(bs) - 1) : \E b \in R : k \in ToSet(bs[b + 1]) }
    IN IF R2 = R THEN R ELSE ReachFrom(bs, R2)

RECURSIVE Factorial(_)
Factorial(k) == IF k = 0 THEN 1 ELSE k * Factorial(k - 1)
\* the binomial coefficient C(i, j)
Binom(i, j) == Factorial(i) \div (Factorial(j) * Factorial(i - j))

\* C16: pascal_triangle(n) returns the empty list for n <= 0; for n > 0 it
\* returns n rows, row i (from 0) having i + 1 entries, 1 at both ends, every
\* interior entry the sum of the two entries above it, and entry j equal to
\* C(i, j).
C16_PascalRows ==
    pt_pc = "done" =>
        IF pt_n <= 0
        THEN pt_result = << >>
        ELSE /\ Len(pt_result) = pt_n
             /\ \A i \in 0..(pt_n - 1) :
                    LET r == pt_result[i + 1]
                    IN /\ Len(r) = i + 1
                       /\ r[1] = 1
                       /\ r[i + 1] = 1
                       /\ \A j \in 1..(i - 1) :
                              r[j + 1] = pt_result[i][j] + pt_result[i][j + 1]
                       /\ \A j \in 0..i : r[j + 1] = Binom(i, j)

\* C16 witness: pascal_triangle(5) has returned and its last row is 1 4 6 4 1.
C16_Witness ==
    /\ pt_pc = "done" /\ pt_n = 5
    /\ Len(pt_result) = 5
    /\ pt_result[5] = << 1, 4, 6, 4, 1 >>

====
